---- MODULE Spec2Model ----
(***************************************************************************)
(* A model of src/generate_shapes.py: the segment filter of load_osm_data, *)
(* build_track_graph, find_nearest_node and find_path_bfs.                  *)
(*                                                                         *)
(* Coordinates are integers in units of 1e-5 degree, so that a raw         *)
(* coordinate (5 decimals) and its CoordinateKey (4 decimals) differ.      *)
(* Distances are integers in units of 1e-6 km.                             *)
(* Python's None is the empty tuple; a path returned by find_path_bfs is   *)
(* written Some(path), so that the empty path is not None.                 *)
(***************************************************************************)
EXTENDS Integers, Sequences, FiniteSets, TLC

VARIABLES
    pc,             \* the step the running function is at
    elements,       \* load_osm_data: the raw OSM elements
    elem_i,         \* load_osm_data: position of `for elem in elements`
    filtered,       \* load_osm_data: the list returned
    segments,       \* build_track_graph: its argument
    seg_i,          \* build_track_graph: position of `for seg in segments`
    graph,          \* build_track_graph: coord_key -> list of edges, in insertion order
    segment_geoms,  \* build_track_graph: segment_id -> geometry
    lat,            \* find_nearest_node: target latitude
    lon,            \* find_nearest_node: target longitude
    max_dist_km,    \* find_nearest_node: search radius
    node_i,         \* find_nearest_node: position of `for node in graph.keys()`
    best_node,      \* find_nearest_node
    best_dist,      \* find_nearest_node
    nearest_ret,    \* find_nearest_node: the pair returned
    start_node,     \* find_path_bfs
    end_node,       \* find_path_bfs
    max_segments,   \* find_path_bfs: hop bound
    queue,          \* find_path_bfs: deque of (current_node, path_so_far)
    visited,        \* find_path_bfs
    path_ret,       \* find_path_bfs: the value returned
    path_arg,       \* path_to_coordinates: its argument `path`
    path_i,         \* path_to_coordinates: position of `for seg_id, reversed_dir in path`
    coords,         \* path_to_coordinates: the list returned
    routes,         \* generate_shapes: ROUTES, its items in order
    stations,       \* generate_shapes: STATIONS
    route_i,        \* generate_shapes: position of `for route_id, route_info in ROUTES.items()`
    at,             \* generate_shapes: which call of the loop body is running
    found_start,    \* generate_shapes: start_node, start_dist
    shapes,         \* generate_shapes: list of (shape_id, coords)
    shape_i,        \* generate_shapes: position of `for shape_id, coords in shapes`
    rows,           \* generate_shapes: the rows written to shapes.txt
    trips,          \* generate_shapes: the rows read from trips.txt
    trips_out       \* generate_shapes: the rows written to trips.txt

vars ==
    << pc, elements, elem_i, filtered, segments, seg_i, graph, segment_geoms,
       lat, lon, max_dist_km, node_i, best_node, best_dist, nearest_ret,
       start_node, end_node, max_segments, queue, visited, path_ret,
       path_arg, path_i, coords, routes, stations, route_i, at, found_start,
       shapes, shape_i, rows, trips, trips_out >>

filterVars == << elements, elem_i, filtered >>
buildVars == << segments, seg_i, graph, segment_geoms >>
nearestVars == << lat, lon, max_dist_km, node_i, best_node, best_dist, nearest_ret >>
bfsVars == << start_node, end_node, max_segments, queue, visited, path_ret >>
coordsVars == << path_arg, path_i, coords >>
shapesVars ==
    << routes, stations, route_i, at, found_start, shapes, shape_i, rows,
       trips, trips_out >>

----------------------------------------------------------------------------
(* Bounds of the model. *)

\* Longest list of raw elements given to the filter.
MaxElements == 2

\* Longest list of segments given to build_track_graph.
MaxSegments == 3

\* Largest hop bound tried besides the default.
MaxHopBound == 2

\* Longest path given to path_to_coordinates on its own.
MaxPathLen == 3

\* Most routes in ROUTES.
MaxRoutes == 2

\* Most rows of trips.txt.
MaxTrips == 2

----------------------------------------------------------------------------
(* Python values. *)

None == <<>>

Some(v) == <<v>>

\* A key a dict does not hold.
Absent == "absent"

\* dict.get(key, default) on a dict whose missing keys are marked Absent.
DictGet(v, default) == IF v = Absent THEN default ELSE v

\* float('inf'): above every distance of the model.
Inf == 2000000000

----------------------------------------------------------------------------
(* Coordinates: the points the inputs are drawn from. *)

Pt(la, lo) == [lat |-> la, lon |-> lo]

PA == Pt(3400000, -700000)

\* Rounds to the key of PA.
PA2 == Pt(3400003, -700004)

\* 0.0625 degree east of PA.
PB == Pt(3400000, -693750)

\* 0.0625 degree west of PA: as far from PA as PB is.
PC == Pt(3400000, -706250)

\* 0.1 degree north of PA.
PD == Pt(3410000, -700000)

\* Rounds to the key of PD.
PD2 == Pt(3409996, -699997)

\* 0.1 degree north of PB.
PE == Pt(3410000, -693750)

\* A point inside a segment.
PM == Pt(3405000, -703000)

\* A station 0.5 degree north of PA, more than 10 km from every other point.
TFar == Pt(3450000, -700000)

\* A station some 24 m from PA.
TNear == Pt(3400020, -700010)

\* haversine() at the points above, in 1e-6 km, each unordered pair once.
HaversineTable ==
    <<3400000, -706250, 3400000, -706250>> :> 0
    @@ <<3400000, -706250, 3400000, -700000>> :> 5761548
    @@ <<3400000, -706250, 3400000, -693750>> :> 11523096
    @@ <<3400000, -706250, 3400003, -700004>> :> 5757861
    @@ <<3400000, -706250, 3400020, -700010>> :> 5752366
    @@ <<3400000, -706250, 3405000, -703000>> :> 6315183
    @@ <<3400000, -706250, 3409996, -699997>> :> 12519281
    @@ <<3400000, -706250, 3410000, -700000>> :> 12521958
    @@ <<3400000, -706250, 3410000, -693750>> :> 16008385
    @@ <<3400000, -706250, 3450000, -700000>> :> 55893444
    @@ <<3400000, -700000, 3400000, -700000>> :> 0
    @@ <<3400000, -700000, 3400000, -693750>> :> 5761548
    @@ <<3400000, -700000, 3400003, -700004>> :> 4972
    @@ <<3400000, -700000, 3400020, -700010>> :> 24074
    @@ <<3400000, -700000, 3405000, -703000>> :> 6209227
    @@ <<3400000, -700000, 3409996, -699997>> :> 11115045
    @@ <<3400000, -700000, 3410000, -700000>> :> 11119493
    @@ <<3400000, -700000, 3410000, -693750>> :> 12521958
    @@ <<3400000, -700000, 3450000, -700000>> :> 55597463
    @@ <<3400000, -693750, 3400000, -693750>> :> 0
    @@ <<3400000, -693750, 3400003, -700004>> :> 5765236
    @@ <<3400000, -693750, 3400020, -700010>> :> 5770803
    @@ <<3400000, -693750, 3405000, -703000>> :> 10177389
    @@ <<3400000, -693750, 3409996, -699997>> :> 12516738
    @@ <<3400000, -693750, 3410000, -700000>> :> 12521958
    @@ <<3400000, -693750, 3410000, -693750>> :> 11119493
    @@ <<3400000, -693750, 3450000, -700000>> :> 55893444
    @@ <<3400003, -700004, 3400003, -700004>> :> 0
    @@ <<3400003, -700004, 3400020, -700010>> :> 19696
    @@ <<3400003, -700004, 3405000, -703000>> :> 6204599
    @@ <<3400003, -700004, 3409996, -699997>> :> 11111711
    @@ <<3400003, -700004, 3410000, -700000>> :> 11116157
    @@ <<3400003, -700004, 3410000, -693750>> :> 12520691
    @@ <<3400003, -700004, 3450000, -700000>> :> 55594128
    @@ <<3400020, -700010, 3400020, -700010>> :> 0
    @@ <<3400020, -700010, 3405000, -703000>> :> 6185210
    @@ <<3400020, -700010, 3409996, -699997>> :> 11092812
    @@ <<3400020, -700010, 3410000, -700000>> :> 11097258
    @@ <<3400020, -700010, 3410000, -693750>> :> 12506457
    @@ <<3400020, -700010, 3450000, -700000>> :> 55575225
    @@ <<3405000, -703000, 3405000, -703000>> :> 0
    @@ <<3405000, -703000, 3409996, -699997>> :> 6205750
    @@ <<3405000, -703000, 3410000, -700000>> :> 6208502
    @@ <<3405000, -703000, 3410000, -693750>> :> 10173180
    @@ <<3405000, -703000, 3450000, -700000>> :> 50113587
    @@ <<3409996, -699997, 3409996, -699997>> :> 0
    @@ <<3409996, -699997, 3410000, -700000>> :> 5236
    @@ <<3409996, -699997, 3410000, -693750>> :> 5751997
    @@ <<3409996, -699997, 3450000, -700000>> :> 44482419
    @@ <<3410000, -700000, 3410000, -700000>> :> 0
    @@ <<3410000, -700000, 3410000, -693750>> :> 5754757
    @@ <<3410000, -700000, 3450000, -700000>> :> 44477971
    @@ <<3410000, -693750, 3410000, -693750>> :> 0
    @@ <<3410000, -693750, 3450000, -700000>> :> 44846962
    @@ <<3450000, -700000, 3450000, -700000>> :> 0

haversine(lat1, lon1, lat2, lon2) ==
    IF <<lat1, lon1, lat2, lon2>> \in DOMAIN HaversineTable
    THEN HaversineTable[<<lat1, lon1, lat2, lon2>>]
    ELSE HaversineTable[<<lat2, lon2, lat1, lon1>>]

\* 1e-4 degree, the precision of coord_key, in coordinate units.
KeyUnit == 10

RoundPastNext(x) == ((x \div KeyUnit) + 1) * KeyUnit

\* round(x, 4); no coordinate of the model lies halfway between two keys.
Round4(x) == ((x + (KeyUnit \div 2)) \div KeyUnit) * KeyUnit

coord_key(la, lo) == <<Round4(la), Round4(lo)>>

----------------------------------------------------------------------------
(* Inputs. *)

\* Geometries of the segments: two-point and three-point ways between the
\* keys of PA, PB, PC and PD, a way whose two ends share the key of PA, and
\* two ways too short to be a track.
GeometryPool ==
    { <<>>,
      <<PA>>,
      <<PA2, PB>>,
      <<PB, PD>>,
      <<PD2, PM, PC>>,
      <<PC, PA>>,
      <<PA, PD>>,
      <<PA, PA2>> }

\* The geometries that build_track_graph turns into edges.
TrackPool == { g \in GeometryPool : Len(g) >= 2 }

\* Lists of at most n members of S.
SeqsUpTo(S, n) == UNION { [1..k -> S] : k \in 0..n }

\* OSM way ids are unique: the segment at position i has id i.
WithIds(geoms) == [i \in 1..Len(geoms) |-> [id |-> i, geometry |-> geoms[i]]]

UsageValues == {Absent, "main", "military", "industrial"}

ServiceValues == {Absent, "yard", "siding", "spur", "crossover"}

NoTags == [usage |-> Absent, service |-> Absent]

\* The tags and geometry of a raw element; has_tags and has_geometry say
\* whether the element holds the key at all.
ElementPool ==
    { [has_tags |-> TRUE, tags |-> [usage |-> u, service |-> s],
       has_geometry |-> TRUE, geometry |-> g] :
        u \in UsageValues, s \in ServiceValues, g \in {<<>>, <<PA, PB>>} }
    \cup
    { [has_tags |-> FALSE, tags |-> NoTags, has_geometry |-> hg,
       geometry |-> IF hg THEN <<PA, PB>> ELSE <<>>] : hg \in BOOLEAN }
    \cup
    { [has_tags |-> TRUE, tags |-> [usage |-> u, service |-> Absent],
       has_geometry |-> FALSE, geometry |-> <<>>] : u \in UsageValues }

WithElementIds(es) ==
    [i \in 1..Len(es) |->
        [id |-> i, has_tags |-> es[i].has_tags, tags |-> es[i].tags,
         has_geometry |-> es[i].has_geometry, geometry |-> es[i].geometry]]

----------------------------------------------------------------------------
(* load_osm_data: the filter loop. *)

excluded_usage == {"military", "industrial"}

excluded_service == {"yard", "siding", "spur", "crossover"}

\* tags = elem.get('tags', {})
ElemTags(elem) == IF elem.has_tags THEN elem.tags ELSE NoTags

IncludedOr(usage, service) ==
    usage \notin excluded_usage \/ service \notin excluded_service

\* usage not in excluded_usage and service not in excluded_service
Included(usage, service) ==
    usage \notin excluded_usage /\ service \notin excluded_service

\* 'geometry' in elem and len(elem['geometry']) > 0
HasGeometry(elem) == elem.has_geometry /\ Len(elem.geometry) > 0

KeepElement(elem) ==
    LET tags == ElemTags(elem)
        usage == DictGet(tags.usage, "unknown")
        service == DictGet(tags.service, "")
    IN  IF Included(usage, service) THEN HasGeometry(elem) ELSE FALSE

FilterIdle == elements = <<>> /\ elem_i = 1 /\ filtered = <<>>

BuildIdle == segments = <<>> /\ seg_i = 1 /\ graph = <<>> /\ segment_geoms = <<>>

NearestIdle ==
    /\ lat = 0 /\ lon = 0 /\ max_dist_km = 0 /\ node_i = 1
    /\ best_node = None /\ best_dist = Inf /\ nearest_ret = None

BfsIdle ==
    /\ start_node = None /\ end_node = None /\ max_segments = 0
    /\ queue = <<>> /\ visited = {} /\ path_ret = None

CoordsIdle == path_arg = <<>> /\ path_i = 1 /\ coords = <<>>

ShapesIdle ==
    /\ routes = <<>> /\ stations = <<>> /\ route_i = 1 /\ at = "none"
    /\ found_start = None /\ shapes = <<>> /\ shape_i = 1 /\ rows = <<>>
    /\ trips = <<>> /\ trips_out = <<>>

InitFilter ==
    /\ pc = "filter"
    /\ elements \in { WithElementIds(es) : es \in SeqsUpTo(ElementPool, MaxElements) }
    /\ elem_i = 1
    /\ filtered = <<>>
    /\ BuildIdle /\ NearestIdle /\ BfsIdle /\ CoordsIdle /\ ShapesIdle

\* One pass of `for elem in elements`.
FilterStep ==
    /\ pc = "filter"
    /\ elem_i <= Len(elements)
    /\ filtered' = IF KeepElement(elements[elem_i])
                   THEN Append(filtered, elements[elem_i])
                   ELSE filtered
    /\ elem_i' = elem_i + 1
    /\ UNCHANGED << pc, elements, buildVars, nearestVars, bfsVars,
                    coordsVars, shapesVars >>

\* The loop is over: return filtered.
FilterReturn ==
    /\ pc = "filter"
    /\ elem_i > Len(elements)
    /\ pc' = "filter_done"
    /\ UNCHANGED << filterVars, buildVars, nearestVars, bfsVars,
                    coordsVars, shapesVars >>

NextFilter == FilterStep \/ FilterReturn

SpecFilter == InitFilter /\ [][NextFilter]_vars

----------------------------------------------------------------------------
(* The graph: a dict from coord_key to its list of edges.  It is written as
   the sequence of its items in insertion order, each [node, edges]; an edge
   is <<other_coord_key, segment_id, reversed>>. *)

\* graph.keys(), in insertion order
GraphKeys(g) == [i \in 1..Len(g) |-> g[i].node]

NodeSet(g) == { g[i].node : i \in 1..Len(g) }

GraphGetLastFirst(g, node) ==
    IF node \in NodeSet(g)
    THEN LET edges == g[CHOOSE i \in 1..Len(g) : g[i].node = node].edges
         IN  [k \in 1..Len(edges) |-> edges[Len(edges) + 1 - k]]
    ELSE <<>>

\* graph.get(node, [])
GraphGet(g, node) ==
    IF node \in NodeSet(g)
    THEN g[CHOOSE i \in 1..Len(g) : g[i].node = node].edges
    ELSE <<>>

GraphAfterIndexing(g, node) ==
    IF node \in { g[i].node : i \in 1..Len(g) }
    THEN g
    ELSE Append(g, [node |-> node, edges |-> <<>>])

\* The graph after graph.get(node, []): get() on a defaultdict does not
\* call the default factory, so a missing key stays missing.
GraphAfterGet(g, node) == g

\* graph[node].append(edge) on a defaultdict(list): a missing key is
\* inserted last, with the empty list, before the append.
GraphAppend(g, node, edge) ==
    IF node \in NodeSet(g)
    THEN [i \in 1..Len(g) |->
            IF g[i].node = node
            THEN [node |-> node, edges |-> Append(g[i].edges, edge)]
            ELSE g[i]]
    ELSE Append(g, [node |-> node, edges |-> <<edge>>])

----------------------------------------------------------------------------
(* build_track_graph *)

TooShortBelowOne(geom) == Len(geom) < 1

\* len(geom) < 2
TooShort(geom) == Len(geom) < 2

SegStart(geom) == coord_key(geom[1].lat, geom[1].lon)

SegEnd(geom) == coord_key(geom[Len(geom)].lat, geom[Len(geom)].lon)

AddEdgesFlagsSwapped(g, seg) ==
    LET start == SegStart(seg.geometry)
        end == SegEnd(seg.geometry)
    IN  GraphAppend(GraphAppend(g, start, <<end, seg.id, TRUE>>),
                    end, <<start, seg.id, FALSE>>)

AddEdgesForwardOnly(g, seg) ==
    GraphAppend(g, SegStart(seg.geometry),
                <<SegEnd(seg.geometry), seg.id, FALSE>>)

\* graph[start].append((end, seg_id, False))
\* graph[end].append((start, seg_id, True))
AddEdges(g, seg) ==
    LET start == SegStart(seg.geometry)
        end == SegEnd(seg.geometry)
    IN  GraphAppend(GraphAppend(g, start, <<end, seg.id, FALSE>>),
                    end, <<start, seg.id, TRUE>>)

\* segment_geoms[seg_id] = geom
StoreGeom(geoms, seg) ==
    [i \in (DOMAIN geoms) \cup {seg.id} |->
        IF i = seg.id THEN seg.geometry ELSE geoms[i]]

AddSegmentStoresFirst(gs, seg) ==
    IF TooShort(seg.geometry)
    THEN [graph |-> gs.graph,
          segment_geoms |-> StoreGeom(gs.segment_geoms, seg)]
    ELSE [graph |-> AddEdges(gs.graph, seg),
          segment_geoms |-> StoreGeom(gs.segment_geoms, seg)]

\* The body of `for seg in segments`, on the pair (graph, segment_geoms).
AddSegment(gs, seg) ==
    IF TooShort(seg.geometry)
    THEN gs
    ELSE [graph |-> AddEdges(gs.graph, seg),
          segment_geoms |-> StoreGeom(gs.segment_geoms, seg)]

RECURSIVE BuildFrom(_, _, _)
BuildFrom(gs, segs, i) ==
    IF i > Len(segs) THEN gs ELSE BuildFrom(AddSegment(gs, segs[i]), segs, i + 1)

\* build_track_graph(segments), start to end.
build_track_graph(segs) ==
    BuildFrom([graph |-> <<>>, segment_geoms |-> <<>>], segs, 1)

InitBuild ==
    /\ pc = "build"
    /\ segments \in { WithIds(gs) : gs \in SeqsUpTo(GeometryPool, MaxSegments) }
    /\ seg_i = 1
    /\ graph = <<>>
    /\ segment_geoms = <<>>
    /\ FilterIdle /\ NearestIdle /\ BfsIdle /\ CoordsIdle /\ ShapesIdle

\* One pass of `for seg in segments`.
BuildStep ==
    /\ pc = "build"
    /\ seg_i <= Len(segments)
    /\ LET gs == AddSegment([graph |-> graph, segment_geoms |-> segment_geoms],
                            segments[seg_i])
       IN  /\ graph' = gs.graph
           /\ segment_geoms' = gs.segment_geoms
    /\ seg_i' = seg_i + 1
    /\ UNCHANGED << pc, segments, filterVars, nearestVars, bfsVars,
                    coordsVars, shapesVars >>

\* The loop is over: return graph, segment_geoms.
BuildReturn ==
    /\ pc = "build"
    /\ seg_i > Len(segments)
    /\ pc' = "build_done"
    /\ UNCHANGED << buildVars, filterVars, nearestVars, bfsVars,
                    coordsVars, shapesVars >>

NextBuild == BuildStep \/ BuildReturn

SpecBuild == InitBuild /\ [][NextBuild]_vars

----------------------------------------------------------------------------
(* Properties of the segment filter. *)

\* What C8 says of a raw element: neither tag, where present, is an excluded
\* one, and the geometry is present and non-empty.
SaidToBeKept(e) ==
    /\ (e.has_tags /\ e.tags.usage # Absent)
          => e.tags.usage \notin {"military", "industrial"}
    /\ (e.has_tags /\ e.tags.service # Absent)
          => e.tags.service \notin {"yard", "siding", "spur", "crossover"}
    /\ e.has_geometry
    /\ e.geometry # <<>>

\* C8: the filter keeps a raw segment if and only if its usage tag is not
\* military or industrial, its service tag is not yard, siding, spur or
\* crossover, and its geometry is present and non-empty; the list returned
\* is the kept elements seen so far, in input order, so an element with
\* missing or unmatched tags is kept.
C8_FilterKeepsExactly ==
    pc \in {"filter", "filter_done"} =>
        filtered = SelectSeq(SubSeq(elements, 1, elem_i - 1), SaidToBeKept)

\* C8 witness: the filter has returned, having kept an element with no tags
\* at all and dropped one for its service tag.
C8_Witness ==
    /\ pc = "filter_done"
    /\ \E i \in 1..Len(elements) :
          /\ ~elements[i].has_tags
          /\ \E k \in 1..Len(filtered) : filtered[k] = elements[i]
    /\ \E i \in 1..Len(elements) :
          /\ elements[i].tags.service = "crossover"
          /\ elements[i].tags.usage = "main"
          /\ elements[i].has_geometry /\ elements[i].geometry # <<>>
          /\ \A k \in 1..Len(filtered) : filtered[k] # elements[i]

----------------------------------------------------------------------------
(* Properties of build_track_graph. *)

\* The segments the loop has been through.
Processed == 1..(seg_i - 1)

ValidProcessed == { i \in Processed : Len(segments[i].geometry) >= 2 }

\* The places of the graph that hold an edge: <<item, position in its list>>.
Places(g) == UNION { {i} \X (1..Len(g[i].edges)) : i \in 1..Len(g) }

EdgeAt(g, p) == g[p[1]].edges[p[2]]

PlacesOf(g, id) == { p \in Places(g) : EdgeAt(g, p)[2] = id }

KeyOf(point) == coord_key(point.lat, point.lon)

\* C6: every segment with at least 2 points has exactly two edges carrying
\* its id, the forward edge (end key, id, not reversed) under its start key
\* and the reverse edge (start key, id, reversed) under its end key, and the
\* graph holds no other edge.
C6_TwoEdgesPerSegment ==
    pc \in {"build", "build_done"} =>
        /\ \A i \in ValidProcessed :
              LET geom == segments[i].geometry
                  s == KeyOf(geom[1])
                  e == KeyOf(geom[Len(geom)])
                  P == PlacesOf(graph, segments[i].id)
              IN  /\ Cardinality(P) = 2
                  /\ \E p \in P : /\ graph[p[1]].node = s
                                  /\ EdgeAt(graph, p) = <<e, segments[i].id, FALSE>>
                  /\ \E p \in P : /\ graph[p[1]].node = e
                                  /\ EdgeAt(graph, p) = <<s, segments[i].id, TRUE>>
        /\ \A p \in Places(graph) :
              EdgeAt(graph, p)[2] \in { segments[i].id : i \in ValidProcessed }

\* C6 witness: the graph is built from three valid segments, one of them
\* with a raw end point that is not its own key, and holds six edges.
C6_Witness ==
    /\ pc = "build_done"
    /\ Cardinality(ValidProcessed) = 3
    /\ \E i \in ValidProcessed : KeyOf(segments[i].geometry[1]) # 
          <<segments[i].geometry[1].lat, segments[i].geometry[1].lon>>
    /\ Cardinality(Places(graph)) = 6

ShortProcessed == { i \in Processed : Len(segments[i].geometry) < 2 }

\* C7: a segment with fewer than 2 points adds no edge, no node and no entry
\* of the geometry store (the nodes are the end keys of the valid segments
\* alone), and the loop goes on: at the return every valid segment is stored.
C7_ShortSegmentSkipped ==
    pc \in {"build", "build_done"} =>
        /\ \A i \in ShortProcessed :
              /\ segments[i].id \notin DOMAIN segment_geoms
              /\ PlacesOf(graph, segments[i].id) = {}
        /\ NodeSet(graph) =
              UNION { { KeyOf(segments[i].geometry[1]),
                        KeyOf(segments[i].geometry[Len(segments[i].geometry)]) } :
                      i \in ValidProcessed }
        /\ Len(graph) = Cardinality(NodeSet(graph))
        /\ pc = "build_done" =>
              /\ Processed = 1..Len(segments)
              /\ DOMAIN segment_geoms = { segments[i].id : i \in ValidProcessed }

\* C7 witness: the build has returned from a list with a one-point segment
\* and an empty one ahead of a valid segment, which is in the store.
C7_Witness ==
    /\ pc = "build_done"
    /\ Len(segments) = 3
    /\ Len(segments[1].geometry) = 1
    /\ Len(segments[2].geometry) = 0
    /\ Len(segments[3].geometry) >= 2
    /\ segments[3].id \in DOMAIN segment_geoms
    /\ Len(graph) = 2

----------------------------------------------------------------------------
(* find_nearest_node *)

\* max_dist_km=10, in 1e-6 km.
DefaultMaxDistKm == 10000000

\* The coordinates find_nearest_node is asked about: a point that is a node
\* key, a point next to it, and a point far from every node.
TargetPool == {PA, TNear, TFar}

\* The radii tried: the default, and one that is exactly the distance
\* between PA and the key of PB.
RadiusPool == {DefaultMaxDistKm, haversine(PA.lat, PA.lon, PB.lat, PB.lon)}

\* The state build_track_graph(segs) leaves behind.
Built(segs) ==
    LET gs == build_track_graph(segs)
    IN  /\ segments = segs
        /\ seg_i = Len(segs) + 1
        /\ graph = gs.graph
        /\ segment_geoms = gs.segment_geoms

InitNearest ==
    /\ pc = "nearest"
    /\ \E gl \in SeqsUpTo(GeometryPool, MaxSegments) : Built(WithIds(gl))
    /\ \E t \in TargetPool : lat = t.lat /\ lon = t.lon
    /\ max_dist_km \in RadiusPool
    /\ node_i = 1
    /\ best_node = None
    /\ best_dist = Inf
    /\ nearest_ret = None
    /\ FilterIdle /\ BfsIdle /\ CoordsIdle /\ ShapesIdle

AlwaysCloser(dist, best) == TRUE

\* dist < best_dist
Closer(dist, best) == dist < best

BeyondOrAt(best, radius) == best >= radius

\* best_dist > max_dist_km
Beyond(best, radius) == best > radius

\* One pass of `for node in graph.keys()`.
NearestStep ==
    /\ pc = "nearest"
    /\ node_i <= Len(graph)
    /\ LET node == GraphKeys(graph)[node_i]
           dist == haversine(lat, lon, node[1], node[2])
       IN  IF Closer(dist, best_dist)
           THEN best_dist' = dist /\ best_node' = node
           ELSE UNCHANGED << best_dist, best_node >>
    /\ node_i' = node_i + 1
    /\ UNCHANGED << pc, lat, lon, max_dist_km, nearest_ret,
                    filterVars, buildVars, bfsVars,
                    coordsVars, shapesVars >>

\* The loop is over: return (None, best_dist) or (best_node, best_dist).
NearestReturn ==
    /\ pc = "nearest"
    /\ node_i > Len(graph)
    /\ nearest_ret' = IF Beyond(best_dist, max_dist_km)
                      THEN <<None, best_dist>>
                      ELSE <<best_node, best_dist>>
    /\ pc' = "nearest_done"
    /\ UNCHANGED << lat, lon, max_dist_km, node_i, best_node, best_dist,
                    filterVars, buildVars, bfsVars,
                    coordsVars, shapesVars >>

NextNearest == NearestStep \/ NearestReturn

SpecNearest == InitNearest /\ [][NextNearest]_vars

----------------------------------------------------------------------------
(* Properties of find_nearest_node. *)

DistanceTo(node) == haversine(lat, lon, node[1], node[2])

\* The least distance from the target to a node; infinite with no node.
MinDistance ==
    IF NodeSet(graph) = {}
    THEN Inf
    ELSE CHOOSE d \in { DistanceTo(n) : n \in NodeSet(graph) } :
            \A n \in NodeSet(graph) : d <= DistanceTo(n)

\* C9: a node returned by find_nearest_node is a node of the graph at most
\* as far from the target as every other node, and the distance returned is
\* its distance; when the target is itself a node the distance returned is 0.
C9_NearestIsMinimum ==
    pc = "nearest_done" =>
        /\ nearest_ret[1] # None =>
              /\ nearest_ret[1] \in NodeSet(graph)
              /\ \A n \in NodeSet(graph) :
                    DistanceTo(nearest_ret[1]) <= DistanceTo(n)
              /\ nearest_ret[2] = DistanceTo(nearest_ret[1])
        /\ <<lat, lon>> \in NodeSet(graph) => nearest_ret[2] = 0

\* C9 witness: asked about a point next to a node in a graph of four nodes,
\* the call has returned a node that was not the first scanned.
C9_Witness ==
    /\ pc = "nearest_done"
    /\ Len(graph) = 4
    /\ <<lat, lon>> = <<TNear.lat, TNear.lon>>
    /\ nearest_ret[1] # None
    /\ nearest_ret[1] # graph[1].node
    /\ nearest_ret[2] > 0

\* C10: find_nearest_node returns no node exactly when the least distance
\* over all nodes exceeds the radius, the graph with no node included; a
\* node whose distance equals the radius is returned.
C10_NoneIffBeyondRadius ==
    pc = "nearest_done" =>
        (nearest_ret[1] = None <=> MinDistance > max_dist_km)

\* C10 witness: the nearest node lies exactly at the radius and is returned.
C10_Witness ==
    /\ pc = "nearest_done"
    /\ NodeSet(graph) # {}
    /\ MinDistance = max_dist_km
    /\ nearest_ret[1] # None
    /\ nearest_ret[2] = max_dist_km

----------------------------------------------------------------------------
(* find_path_bfs *)

\* max_segments=500
DefaultMaxSegments == 500

\* The hop bounds tried.
HopBounds == (0..MaxHopBound) \cup {DefaultMaxSegments}

\* The nodes a search is asked about, whether or not the graph holds them.
NodePool == { KeyOf(p) : p \in {PA, PB, PC, PD, PE} }

\* Two routes from PA to PE over five segments: PA-PB-PE, and PA-PC-PD-PE
\* with one segment more.
TwoRoutes == << <<PA2, PB>>, <<PB, PE>>, <<PC, PA>>, <<PD2, PM, PC>>, <<PD, PE>> >>

\* Two routes of two segments each from PA to PD, by PC and by PB.
Diamond == << <<PC, PA>>, <<PA2, PB>>, <<PB, PD>>, <<PD2, PM, PC>> >>

\* The segment lists the searched graphs are built from.
SearchInputs == SeqsUpTo(TrackPool, MaxSegments) \cup {TwoRoutes, Diamond}

InitBfs ==
    /\ pc = "bfs"
    /\ \E gl \in SearchInputs : Built(WithIds(gl))
    /\ start_node \in NodePool
    /\ end_node \in NodePool
    /\ max_segments \in HopBounds
    /\ queue = <<>>
    /\ visited = {}
    /\ path_ret = None
    /\ FilterIdle /\ NearestIdle /\ CoordsIdle /\ ShapesIdle

NeverSame(a, b) == FALSE

\* start_node == end_node
SameNode(a, b) == a = b

PeekLeft(q) == <<Head(q), q>>

PopRight(q) == <<q[Len(q)], SubSeq(q, 1, Len(q) - 1)>>

\* queue.popleft(): the entry taken and the queue left.
PopLeft(q) == <<Head(q), Tail(q)>>

NeverOverBound(path, bound) == FALSE

\* len(path) > max_segments
OverBound(path, bound) == Len(path) > bound

NewPathDropsPrefix(path, seg_id, reversed_dir) == << <<seg_id, reversed_dir>> >>

\* new_path = path + [(seg_id, reversed_dir)]
NewPath(path, seg_id, reversed_dir) == Append(path, <<seg_id, reversed_dir>>)

NotFoundAsEmpty == Some(<<>>)

\* return None
NotFound == None

NeverSeen(node, vis) == FALSE

\* next_node in visited
Seen(node, vis) == node \in vis

\* `for next_node, seg_id, reversed_dir in graph.get(current, [])`, from
\* edge k on: found says whether the loop returned new_path.
RECURSIVE ScanEdges(_, _, _, _, _)
ScanEdges(edges, k, path, vis, q) ==
    IF k > Len(edges)
    THEN [found |-> FALSE, new_path |-> <<>>, visited |-> vis, queue |-> q]
    ELSE LET next_node == edges[k][1]
             new_path == NewPath(path, edges[k][2], edges[k][3])
         IN  IF Seen(next_node, vis)
             THEN ScanEdges(edges, k + 1, path, vis, q)
             ELSE IF next_node = end_node
                  THEN [found |-> TRUE, new_path |-> new_path,
                        visited |-> vis, queue |-> q]
                  ELSE ScanEdges(edges, k + 1, path, vis \cup {next_node},
                                 Append(q, <<next_node, new_path>>))

\* start_node == end_node: return []
BfsSameNode ==
    /\ pc = "bfs"
    /\ SameNode(start_node, end_node)
    /\ path_ret' = Some(<<>>)
    /\ pc' = "bfs_done"
    /\ UNCHANGED << start_node, end_node, max_segments, queue, visited,
                    filterVars, buildVars, nearestVars,
                    coordsVars, shapesVars >>

\* queue = deque([(start_node, [])]); visited = {start_node}
BfsBegin ==
    /\ pc = "bfs"
    /\ ~SameNode(start_node, end_node)
    /\ queue' = << <<start_node, <<>>>> >>
    /\ visited' = {start_node}
    /\ pc' = "bfs_loop"
    /\ UNCHANGED << start_node, end_node, max_segments, path_ret,
                    filterVars, buildVars, nearestVars,
                    coordsVars, shapesVars >>

\* A pass of `while queue` that ends at `continue`: the path is over the bound.
BfsPrune ==
    /\ pc = "bfs_loop"
    /\ queue # <<>>
    /\ OverBound(PopLeft(queue)[1][2], max_segments)
    /\ queue' = PopLeft(queue)[2]
    /\ UNCHANGED << pc, start_node, end_node, max_segments, visited, path_ret,
                    filterVars, buildVars, nearestVars,
                    coordsVars, shapesVars >>

\* A pass of `while queue` that goes through the edges of the current node.
BfsExpand ==
    /\ pc = "bfs_loop"
    /\ queue # <<>>
    /\ ~OverBound(PopLeft(queue)[1][2], max_segments)
    /\ LET current == PopLeft(queue)[1][1]
           path == PopLeft(queue)[1][2]
           r == ScanEdges(GraphGet(graph, current), 1, path, visited,
                          PopLeft(queue)[2])
       IN  /\ queue' = r.queue
           /\ visited' = r.visited
           /\ IF r.found
              THEN path_ret' = Some(r.new_path) /\ pc' = "bfs_done"
              ELSE UNCHANGED << path_ret, pc >>
           /\ graph' = GraphAfterGet(graph, current)
    /\ UNCHANGED << start_node, end_node, max_segments, segments, seg_i,
                    segment_geoms, filterVars, nearestVars,
                    coordsVars, shapesVars >>

\* The queue is empty: return None.
BfsExhausted ==
    /\ pc = "bfs_loop"
    /\ queue = <<>>
    /\ path_ret' = NotFound
    /\ pc' = "bfs_done"
    /\ UNCHANGED << start_node, end_node, max_segments, queue, visited,
                    filterVars, buildVars, nearestVars,
                    coordsVars, shapesVars >>

NextBfs == BfsSameNode \/ BfsBegin \/ BfsPrune \/ BfsExpand \/ BfsExhausted

SpecBfs == InitBfs /\ [][NextBfs]_vars

\* The interpreter keeps running the call: a step that can be taken is taken.
SpecBfsFair == SpecBfs /\ WF_vars(NextBfs)

----------------------------------------------------------------------------
(* Properties of find_path_bfs. *)

\* The nodes one edge away from a node of S.
Neighbours(S) ==
    UNION { { GraphGet(graph, n)[k][1] : k \in 1..Len(GraphGet(graph, n)) } :
            n \in S }

\* The nodes a walk of at most k edges from s ends at.
RECURSIVE Within(_, _)
Within(s, k) ==
    IF k = 0
    THEN {s}
    ELSE LET W == Within(s, k - 1) IN W \cup Neighbours(W)

\* A walk that ends at a node can be cut down to fewer edges than nodes.
Reachable(s) == Within(s, Len(graph))

\* The least number of edges of a walk from s to e, for e reachable from s.
MinHops(s, e) ==
    CHOOSE k \in 0..Len(graph) :
        /\ e \in Within(s, k)
        /\ \A j \in 0..(k - 1) : e \notin Within(s, j)

\* The nodes at which following path from edge k on, out of node n, can end:
\* each (segment id, reversed) must be an outgoing edge of the node reached.
RECURSIVE WalkEnds(_, _, _)
WalkEnds(n, path, k) ==
    IF k > Len(path)
    THEN {n}
    ELSE UNION { WalkEnds(GraphGet(graph, n)[j][1], path, k + 1) :
                 j \in { i \in 1..Len(GraphGet(graph, n)) :
                           /\ GraphGet(graph, n)[i][2] = path[k][1]
                           /\ GraphGet(graph, n)[i][3] = path[k][2] } }

Returned == pc = "bfs_done" /\ path_ret # None

\* C1: between two distinct nodes, a path returned by find_path_bfs has the
\* least number of segments of all walks from start to end, and a path is
\* returned whenever a walk within the hop bound exists.
C1_MinimumHops ==
    (pc = "bfs_done" /\ start_node # end_node) =>
        /\ path_ret # None =>
              /\ end_node \in Reachable(start_node)
              /\ Len(path_ret[1]) = MinHops(start_node, end_node)
        /\ (/\ end_node \in Reachable(start_node)
            /\ MinHops(start_node, end_node) <= max_segments)
              => path_ret # None

\* C1 witness: with two routes of 2 and 3 segments between start and end and
\* a hop bound of 2, the search has returned a path of 2 segments.
C1_Witness ==
    /\ Returned
    /\ segments = WithIds(TwoRoutes)
    /\ start_node = KeyOf(PA)
    /\ end_node = KeyOf(PE)
    /\ max_segments = 2
    /\ Len(path_ret[1]) = 2

\* C2: a non-empty path returned by find_path_bfs is a connected walk: its
\* first edge leaves the start node, each next edge leaves the node the
\* edge before it reached, and the last edge reaches the end node.
C2_PathIsWalk ==
    (Returned /\ path_ret[1] # <<>>) =>
        end_node \in WalkEnds(start_node, path_ret[1], 1)

\* C2 witness: a path of three segments has been returned, one of them
\* taken against its stored direction.
C2_Witness ==
    /\ Returned
    /\ Len(path_ret[1]) = 3
    /\ \E k \in 1..3 : path_ret[1][k][2]

\* C3: with the start and the end node both in the graph and no walk from
\* one to the other, find_path_bfs returns None, once the queue is empty,
\* and never a path.
C3_DisconnectedGivesNone ==
    (/\ pc = "bfs_done"
     /\ start_node # end_node
     /\ end_node \notin Reachable(start_node))
        => (path_ret = None /\ queue = <<>>)

\* C3 witness: start and end are nodes of two parts of the graph that no
\* edge joins, and the search has returned None.
C3_Witness ==
    /\ pc = "bfs_done"
    /\ start_node \in NodeSet(graph)
    /\ end_node \in NodeSet(graph)
    /\ Cardinality(Reachable(start_node)) = 2
    /\ end_node \notin Reachable(start_node)
    /\ path_ret = None

\* C4: with the start node equal to the end node find_path_bfs returns the
\* empty path, not None, whatever the graph.
C4_SameNodeGivesEmptyPath ==
    (pc = "bfs_done" /\ start_node = end_node) => path_ret = Some(<<>>)

\* C4 witness: the empty path has been returned for a node the graph does
\* not hold.
C4_Witness ==
    /\ pc = "bfs_done"
    /\ start_node = end_node
    /\ start_node \notin NodeSet(graph)
    /\ graph # <<>>
    /\ path_ret = Some(<<>>)

\* C5: with hop bound max_segments, find_path_bfs never returns a path of
\* more than max_segments segments; when every walk from start to end needs
\* more, the result is None.
C5_PathWithinHopBound ==
    Returned => Len(path_ret[1]) <= max_segments

----------------------------------------------------------------------------
(* Ties in find_nearest_node. *)

\* Python's order of two (lat, lon) tuples.
LexLeq(a, b) == a[1] < b[1] \/ (a[1] = b[1] /\ a[2] <= b[2])

\* C11: of several nodes at the same least distance from the target,
\* find_nearest_node returns the one whose key is smallest in lexicographic
\* order, whatever the order in which the nodes were put into the graph.
C11_TieBrokenByKeyOrder ==
    (pc = "nearest_done" /\ nearest_ret[1] # None) =>
        \A n \in NodeSet(graph) :
            DistanceTo(n) = MinDistance => LexLeq(nearest_ret[1], n)

----------------------------------------------------------------------------
(* path_to_coordinates *)

\* A chain of three segments PA2-PB, PB-PE, PE-PD stored in that direction,
\* each starting at the very point the one before ends at.
Chain == << <<PA2, PB>>, <<PB, PE>>, <<PE, PM, PD>> >>

\* The segment lists the geometry store is built from.
StoreInputs == {TwoRoutes, Chain}

\* points = [(p['lat'], p['lon']) for p in geom]
Points(geom) == [i \in 1..Len(geom) |-> <<geom[i].lat, geom[i].lon>>]

\* points[::-1]
Reversed(points) == [i \in 1..Len(points) |-> points[Len(points) + 1 - i]]

OrientIgnoringFlag(points, reversed_dir) == points

\* if reversed_dir: points = points[::-1]
Orient(points, reversed_dir) ==
    IF reversed_dir THEN Reversed(points) ELSE points

DropNever(cs, points) == points

DropAlways(cs, points) ==
    IF cs # <<>> /\ points # <<>> THEN Tail(points) ELSE points

\* if coords and points: if coords[-1] == points[0]: points = points[1:]
DropJunction(cs, points) ==
    IF cs # <<>> /\ points # <<>>
    THEN IF cs[Len(cs)] = points[1] THEN Tail(points) ELSE points
    ELSE points

GeomsReversedInPlace(geoms, seg_id, reversed_dir) ==
    IF reversed_dir
    THEN [i \in DOMAIN geoms |->
            IF i = seg_id
            THEN [k \in 1..Len(geoms[i]) |-> geoms[i][Len(geoms[i]) + 1 - k]]
            ELSE geoms[i]]
    ELSE geoms

\* segment_geoms after the pass: points is a new list and points[::-1] a
\* copy of it, so the stored geometry is as it was.
GeomsAfterRead(geoms, seg_id, reversed_dir) == geoms

\* The body of `for seg_id, reversed_dir in path`: coords after the pass.
ExtendCoords(cs, geoms, seg_id, reversed_dir) ==
    cs \o DropJunction(cs, Orient(Points(geoms[seg_id]), reversed_dir))

InitCoords ==
    /\ pc = "coords"
    /\ \E gl \in StoreInputs : Built(WithIds(gl))
    /\ path_arg \in SeqsUpTo((DOMAIN segment_geoms) \X BOOLEAN, MaxPathLen)
    /\ path_i = 1
    /\ coords = <<>>
    /\ FilterIdle /\ NearestIdle /\ BfsIdle /\ ShapesIdle

\* One pass of `for seg_id, reversed_dir in path`.
CoordsStep ==
    /\ pc = "coords"
    /\ path_i <= Len(path_arg)
    /\ coords' = ExtendCoords(coords, segment_geoms,
                              path_arg[path_i][1], path_arg[path_i][2])
    /\ segment_geoms' = GeomsAfterRead(segment_geoms,
                                       path_arg[path_i][1], path_arg[path_i][2])
    /\ path_i' = path_i + 1
    /\ UNCHANGED << pc, path_arg, segments, seg_i, graph,
                    filterVars, nearestVars, bfsVars, shapesVars >>

\* The loop is over: return coords.
CoordsReturn ==
    /\ pc = "coords"
    /\ path_i > Len(path_arg)
    /\ pc' = "coords_done"
    /\ UNCHANGED << coordsVars, filterVars, buildVars, nearestVars, bfsVars,
                    shapesVars >>

NextCoords == CoordsStep \/ CoordsReturn

SpecCoords == InitCoords /\ [][NextCoords]_vars

----------------------------------------------------------------------------
(* Properties of path_to_coordinates. *)

\* The stored points of the k-th segment of the path, in the direction the
\* path takes it.
OrientedPts(k) ==
    LET geom == segment_geoms[path_arg[k][1]]
        n == Len(geom)
    IN  [i \in 1..n |->
           IF path_arg[k][2]
           THEN <<geom[n + 1 - i].lat, geom[n + 1 - i].lon>>
           ELSE <<geom[i].lat, geom[i].lon>>]

\* 1 when the k-th segment starts at the very point the one before it ends
\* at, which is then the last point put out so far; 0 otherwise.
Cut(k) ==
    IF k > 1 /\ OrientedPts(k - 1)[Len(OrientedPts(k - 1))] = OrientedPts(k)[1]
    THEN 1
    ELSE 0

\* The number of points put out ahead of the k-th segment.
RECURSIVE OffsetOf(_)
OffsetOf(k) ==
    IF k = 1
    THEN 0
    ELSE OffsetOf(k - 1) + Len(OrientedPts(k - 1)) - Cut(k - 1)

\* C12: path_to_coordinates puts out, in path order, the stored points of
\* each segment, reversed when its flag is set, less its first point exactly
\* when that equals the last point put out so far; the number of points is
\* the sum of the segments' point counts less the number of points dropped.
C12_CoordsAreStitchedSegments ==
    pc \in {"coords", "coords_done"} =>
        /\ Len(coords) = OffsetOf(path_i)
        /\ \A k \in 1..(path_i - 1) :
              \A j \in (1 + Cut(k))..Len(OrientedPts(k)) :
                  coords[OffsetOf(k) + j - Cut(k)] = OrientedPts(k)[j]

\* C12 witness: a path of three segments has been put together, the first
\* taken backwards, with one junction point dropped and one junction whose
\* two points differ kept whole.
C12_Witness ==
    /\ pc = "coords_done"
    /\ Len(path_arg) = 3
    /\ path_arg[1][2]
    /\ Cut(2) = 1
    /\ Cut(3) = 0
    /\ Len(coords) = 6

----------------------------------------------------------------------------
(* generate_shapes: its inputs. *)

\* Two tracks that no segment joins, PA-PB and PD-PE, and between them a
\* one-point way that the filter lets through.
Disconnected == << <<PA2, PB>>, <<PA>>, <<PD, PE>> >>

\* What load_osm_data returns: the segment lists the runs start from.
ShapeInputs == {TwoRoutes, Chain, Disconnected, <<>>}

\* STATIONS: stop_id -> coordinates.  S_A is at the key of PA and S_NEAR
\* some 24 m from it; S_D is at PD2, next to the key of PD; S_E is at PE;
\* S_FAR is more than 10 km from every node.  No station is named S_GONE.
StationsInput ==
    ("S_A" :> PA) @@ ("S_NEAR" :> TNear) @@ ("S_D" :> PD2) @@ ("S_E" :> PE)
    @@ ("S_FAR" :> TFar)

\* The pairs of terminals a route may have.
TerminalPool ==
    { <<"S_A", "S_D">>, <<"S_E", "S_A">>, <<"S_A", "S_NEAR">>,
      <<"S_A", "S_FAR">>, <<"S_GONE", "S_A">>, <<"S_D", "S_E">> }

RouteNames == <<"R1", "R2", "R3", "R4">>

\* ROUTES.items(): route ids are the keys of a dict, hence distinct.
WithRouteIds(ts) ==
    [i \in 1..Len(ts) |-> [route_id |-> RouteNames[i], terminals |-> ts[i]]]

\* The rows of trips.txt, with or without a shape_id column.
TripsInputs ==
    { [has_shape_id |-> TRUE, rows |-> r] :
        r \in SeqsUpTo([route_id : {"R1", "R2", "RX"},
                        service_id : {"WD"},
                        shape_id : {"", "OLD"}], MaxTrips) }
    \cup
    { [has_shape_id |-> FALSE, rows |-> r] :
        r \in SeqsUpTo([route_id : {"R1", "R2", "RX"},
                        service_id : {"WD"},
                        shape_id : {Absent}], MaxTrips) }

----------------------------------------------------------------------------
(* generate_shapes *)

\* After load_stations() and load_osm_data(): build_track_graph(segments)
\* is about to run.
InitShapes ==
    /\ pc = "build"
    /\ segments \in { WithIds(gl) : gl \in ShapeInputs }
    /\ seg_i = 1
    /\ graph = <<>>
    /\ segment_geoms = <<>>
    /\ routes \in { WithRouteIds(ts) : ts \in SeqsUpTo(TerminalPool, MaxRoutes) }
    /\ stations = StationsInput
    /\ route_i = 1
    /\ at = "none"
    /\ found_start = None
    /\ shapes = <<>>
    /\ shape_i = 1
    /\ rows = <<>>
    /\ trips = <<>>
    /\ trips_out = <<>>
    /\ FilterIdle /\ NearestIdle /\ BfsIdle /\ CoordsIdle

\* STATIONS.get(stop_id)
StationGet(stop_id) ==
    IF stop_id \in DOMAIN stations THEN stations[stop_id] ELSE None

CallNearestKeepsBest(station) ==
    /\ lat' = station.lat
    /\ lon' = station.lon
    /\ max_dist_km' = DefaultMaxDistKm
    /\ node_i' = 1
    /\ best_node' = best_node
    /\ best_dist' = best_dist
    /\ nearest_ret' = None
    /\ pc' = "nearest"

\* The arguments of find_nearest_node(graph, lat, lon) and its locals.
CallNearest(station) ==
    /\ lat' = station.lat
    /\ lon' = station.lon
    /\ max_dist_km' = DefaultMaxDistKm
    /\ node_i' = 1
    /\ best_node' = None
    /\ best_dist' = Inf
    /\ nearest_ret' = None
    /\ pc' = "nearest"

\* `continue`: on to the next route.
NextRoute ==
    /\ route_i' = route_i + 1
    /\ at' = "none"
    /\ pc' = "route"

\* graph, segment_geoms = build_track_graph(segments); shapes = []
ShapesStart ==
    /\ pc = "build_done"
    /\ shapes' = <<>>
    /\ route_i' = 1
    /\ pc' = "route"
    /\ UNCHANGED << routes, stations, at, found_start, shape_i, rows, trips,
                    trips_out, filterVars, buildVars, nearestVars, bfsVars,
                    coordsVars >>

\* if not start_station or not end_station: continue
RouteStationMissing ==
    /\ pc = "route"
    /\ route_i <= Len(routes)
    /\ \/ StationGet(routes[route_i].terminals[1]) = None
       \/ StationGet(routes[route_i].terminals[2]) = None
    /\ NextRoute
    /\ UNCHANGED << routes, stations, found_start, shapes, shape_i, rows,
                    trips, trips_out, filterVars, buildVars, nearestVars,
                    bfsVars, coordsVars >>

\* start_node, start_dist = find_nearest_node(graph, start_station...)
RouteNearestStart ==
    /\ pc = "route"
    /\ route_i <= Len(routes)
    /\ StationGet(routes[route_i].terminals[1]) # None
    /\ StationGet(routes[route_i].terminals[2]) # None
    /\ CallNearest(StationGet(routes[route_i].terminals[1]))
    /\ at' = "start"
    /\ UNCHANGED << routes, stations, route_i, found_start, shapes, shape_i,
                    rows, trips, trips_out, filterVars, buildVars, bfsVars,
                    coordsVars >>

\* end_node, end_dist = find_nearest_node(graph, end_station...)
RouteNearestEnd ==
    /\ pc = "nearest_done"
    /\ at = "start"
    /\ found_start' = nearest_ret
    /\ CallNearest(StationGet(routes[route_i].terminals[2]))
    /\ at' = "end"
    /\ UNCHANGED << routes, stations, route_i, shapes, shape_i, rows, trips,
                    trips_out, filterVars, buildVars, bfsVars, coordsVars >>

RouteNoNodeStops ==
    /\ pc = "nearest_done"
    /\ at = "end"
    /\ found_start[1] = None \/ nearest_ret[1] = None
    /\ route_i' = Len(routes) + 1
    /\ at' = "none"
    /\ pc' = "route"
    /\ UNCHANGED << routes, stations, found_start, shapes, shape_i, rows,
                    trips, trips_out, filterVars, buildVars, nearestVars,
                    bfsVars, coordsVars >>

\* if not start_node or not end_node: continue
RouteNoNode ==
    /\ pc = "nearest_done"
    /\ at = "end"
    /\ found_start[1] = None \/ nearest_ret[1] = None
    /\ NextRoute
    /\ UNCHANGED << routes, stations, found_start, shapes, shape_i, rows,
                    trips, trips_out, filterVars, buildVars, nearestVars,
                    bfsVars, coordsVars >>

\* path = find_path_bfs(graph, segment_geoms, start_node, end_node)
RouteFindPath ==
    /\ pc = "nearest_done"
    /\ at = "end"
    /\ found_start[1] # None /\ nearest_ret[1] # None
    /\ start_node' = found_start[1]
    /\ end_node' = nearest_ret[1]
    /\ max_segments' = DefaultMaxSegments
    /\ queue' = <<>>
    /\ visited' = {}
    /\ path_ret' = None
    /\ at' = "path"
    /\ pc' = "bfs"
    /\ UNCHANGED << routes, stations, route_i, found_start, shapes, shape_i,
                    rows, trips, trips_out, filterVars, buildVars,
                    nearestVars, coordsVars >>

IsNone(p) == p = None

\* not path: None and the empty list alike
NotPath(p) == p = None \/ p = Some(<<>>)

\* if not path: continue
RouteNoPath ==
    /\ pc = "bfs_done"
    /\ at = "path"
    /\ NotPath(path_ret)
    /\ NextRoute
    /\ UNCHANGED << routes, stations, found_start, shapes, shape_i, rows,
                    trips, trips_out, filterVars, buildVars, nearestVars,
                    bfsVars, coordsVars >>

\* coords = path_to_coordinates(path, segment_geoms)
RouteCoords ==
    /\ pc = "bfs_done"
    /\ at = "path"
    /\ ~NotPath(path_ret)
    /\ path_arg' = path_ret[1]
    /\ path_i' = 1
    /\ coords' = <<>>
    /\ at' = "coords"
    /\ pc' = "coords"
    /\ UNCHANGED << routes, stations, route_i, found_start, shapes, shape_i,
                    rows, trips, trips_out, filterVars, buildVars,
                    nearestVars, bfsVars >>

RouteAppendFirst ==
    /\ pc = "coords_done"
    /\ at = "coords"
    /\ shapes' = <<<<routes[route_i].route_id, coords>>>> \o shapes
    /\ NextRoute
    /\ UNCHANGED << routes, stations, found_start, shape_i, rows, trips,
                    trips_out, filterVars, buildVars, nearestVars, bfsVars,
                    coordsVars >>

\* shapes.append((route_id, coords))
RouteAppend ==
    /\ pc = "coords_done"
    /\ at = "coords"
    /\ shapes' = Append(shapes, <<routes[route_i].route_id, coords>>)
    /\ NextRoute
    /\ UNCHANGED << routes, stations, found_start, shape_i, rows, trips,
                    trips_out, filterVars, buildVars, nearestVars, bfsVars,
                    coordsVars >>

\* The loop over ROUTES is over: open gtfs/shapes.txt.
RoutesDone ==
    /\ pc = "route"
    /\ route_i > Len(routes)
    /\ shape_i' = 1
    /\ rows' = <<>>
    /\ pc' = "write"
    /\ UNCHANGED << routes, stations, route_i, at, found_start, shapes, trips,
                    trips_out, filterVars, buildVars, nearestVars, bfsVars,
                    coordsVars >>

\* f"{lat:.6f}": a coordinate of 5 decimals printed with 6, in 1e-6 degree.
Fmt6(x) == x * 10

\* f"{dist_traveled:.1f}" of a distance in metres: tenths of a metre, to the
\* nearest, from 1e-6 km.
Fmt1(d) == (d + 50) \div 100

StartDistCarried(written) ==
    IF written = <<>> THEN 0 ELSE written[Len(written)][5] * 100

\* dist_traveled = 0, at the top of the pass for each shape
StartDist(written) == 0

\* `for i, (lat, lon) in enumerate(coords)`, from point k on (k is i + 1):
\* the rows written, acc being those of the points before.
RECURSIVE RowsFrom(_, _, _, _, _)
RowsFrom(shape_id, cs, k, dist_traveled, acc) ==
    IF k > Len(cs)
    THEN acc
    ELSE LET d == IF k > 1
                  THEN dist_traveled
                       + haversine(cs[k - 1][1], cs[k - 1][2], cs[k][1], cs[k][2])
                  ELSE dist_traveled
         IN  RowsFrom(shape_id, cs, k + 1, d,
                      Append(acc, <<shape_id, Fmt6(cs[k][1]), Fmt6(cs[k][2]),
                                    k, Fmt1(d)>>))

\* One pass of `for shape_id, coords in shapes`.
WriteShape ==
    /\ pc = "write"
    /\ shape_i <= Len(shapes)
    /\ rows' = rows \o RowsFrom(shapes[shape_i][1], shapes[shape_i][2], 1,
                                StartDist(rows), <<>>)
    /\ shape_i' = shape_i + 1
    /\ UNCHANGED << pc, routes, stations, route_i, at, found_start, shapes,
                    trips, trips_out, filterVars, buildVars, nearestVars,
                    bfsVars, coordsVars >>

\* shapes.txt is written.
WriteDone ==
    /\ pc = "write"
    /\ shape_i > Len(shapes)
    /\ pc' = "trips"
    /\ UNCHANGED << routes, stations, route_i, at, found_start, shapes,
                    shape_i, rows, trips, trips_out, filterVars, buildVars,
                    nearestVars, bfsVars, coordsVars >>

\* trips = list(reader); fieldnames = reader.fieldnames
ReadTrips ==
    /\ pc = "trips"
    /\ trips' \in TripsInputs
    /\ pc' = "trips_read"
    /\ UNCHANGED << routes, stations, route_i, at, found_start, shapes,
                    shape_i, rows, trips_out, filterVars, buildVars,
                    nearestVars, bfsVars, coordsVars >>

RouteToShapeOfShapes(route_id) ==
    IF route_id \in { shapes[i][1] : i \in 1..Len(shapes) }
    THEN route_id
    ELSE ""

\* route_to_shape = {route_id: route_id for route_id in ROUTES.keys()};
\* route_to_shape.get(route_id, '')
RouteToShape(route_id) ==
    IF route_id \in { routes[i].route_id : i \in 1..Len(routes) }
    THEN route_id
    ELSE ""

\* The shape_id column is added if missing, every trip gets its shape_id,
\* and trips.txt is written.
UpdateTrips ==
    /\ pc = "trips_read"
    /\ trips_out' =
          [has_shape_id |-> TRUE,
           rows |-> [i \in 1..Len(trips.rows) |->
                       [trips.rows[i] EXCEPT
                          !.shape_id = RouteToShape(trips.rows[i].route_id)]]]
    /\ pc' = "done"
    /\ UNCHANGED << routes, stations, route_i, at, found_start, shapes,
                    shape_i, rows, trips, filterVars, buildVars, nearestVars,
                    bfsVars, coordsVars >>

\* BfsPrune is left out: with max_segments=500 a path over the bound needs a
\* graph of more than 500 nodes.
NextShapes ==
    \/ BuildStep \/ BuildReturn \/ ShapesStart
    \/ RouteStationMissing \/ RouteNearestStart
    \/ NearestStep \/ NearestReturn
    \/ RouteNearestEnd \/ RouteNoNode \/ RouteFindPath
    \/ BfsSameNode \/ BfsBegin \/ BfsExpand \/ BfsExhausted
    \/ RouteNoPath \/ RouteCoords
    \/ CoordsStep \/ CoordsReturn
    \/ RouteAppend \/ RoutesDone
    \/ WriteShape \/ WriteDone \/ ReadTrips \/ UpdateTrips

SpecShapes == InitShapes /\ [][NextShapes]_vars

----------------------------------------------------------------------------
(* Properties of generate_shapes. *)

\* shapes.txt is closed.
Written == pc \in {"trips", "trips_read", "done"}

\* The rows of shapes.txt of one shape, in file order.
RowsOf(shape_id) == SelectSeq(rows, LAMBDA r : r[1] = shape_id)

\* C13: in shapes.txt the rows of every shape are its points in order,
\* numbered 1, 2, ..., n; the distance of the first row of each shape is 0,
\* whatever was written before it, and no row has a smaller distance than
\* the row before it.
C13_RowsNumberedAndCumulative ==
    Written =>
        \A j \in 1..Len(shapes) :
            LET rs == RowsOf(shapes[j][1])
                cs == shapes[j][2]
            IN  /\ Len(rs) = Len(cs)
                /\ \A k \in 1..Len(rs) :
                      /\ rs[k][4] = k
                      /\ rs[k][2] = 10 * cs[k][1]
                      /\ rs[k][3] = 10 * cs[k][2]
                /\ rs # <<>> => rs[1][5] = 0
                /\ \A k \in 2..Len(rs) : rs[k - 1][5] <= rs[k][5]

\* C13 witness: two shapes have been written, each ending at a distance
\* above 0.
C13_Witness ==
    /\ Written
    /\ Len(shapes) = 2
    /\ \A j \in 1..2 :
          /\ Len(RowsOf(shapes[j][1])) >= 2
          /\ RowsOf(shapes[j][1])[Len(RowsOf(shapes[j][1]))][5] > 0

\* The loop over ROUTES is over and shapes.txt is not yet closed; the shape
\* list is not written to from here on.
RoutesOver ==
    \/ pc = "route" /\ route_i > Len(routes)
    \/ pc = "write"

\* Once the loop over ROUTES is over no step changes the shape list: what
\* holds of it then holds of the list generate_shapes returns.
ShapesFinalAfterLoop ==
    [][(RoutesOver \/ pc \in {"trips", "trips_read"}) => shapes' = shapes]_vars

\* A terminal of the route has no entry in STATIONS.
MissingStation(r) ==
    \E t \in 1..2 : r.terminals[t] \notin DOMAIN stations

DistFrom(station, n) == haversine(station.lat, station.lon, n[1], n[2])

\* The node a station stands for: of the nodes of the graph nearest to the
\* station the first in the graph's order, if within the default radius.
NearestOf(station) ==
    LET keys == GraphKeys(graph)
        first == CHOOSE i \in 1..Len(keys) :
                    /\ \A j \in 1..Len(keys) :
                          DistFrom(station, keys[i]) <= DistFrom(station, keys[j])
                    /\ \A j \in 1..(i - 1) :
                          DistFrom(station, keys[j]) > DistFrom(station, keys[i])
    IN  IF keys = <<>> THEN None
        ELSE IF DistFrom(station, keys[first]) > DefaultMaxDistKm THEN None
        ELSE keys[first]

NodeOf(r, t) == NearestOf(stations[r.terminals[t]])

\* Both terminals are known and one of them has no node within the radius.
NoNodeNear(r) ==
    /\ ~MissingStation(r)
    /\ \E t \in 1..2 : NodeOf(r, t) = None

\* The terminals stand for two nodes that no walk joins.
NoPathBetween(r) ==
    /\ ~MissingStation(r)
    /\ ~NoNodeNear(r)
    /\ NodeOf(r, 2) \notin Reachable(NodeOf(r, 1))

\* The terminals stand for one and the same node.
ZeroHop(r) ==
    /\ ~MissingStation(r)
    /\ ~NoNodeNear(r)
    /\ NodeOf(r, 1) = NodeOf(r, 2)

Fails(r) == MissingStation(r) \/ NoNodeNear(r) \/ NoPathBetween(r)

\* The route has its stations, its nodes and a path of at least one segment.
Resolved(r) == ~Fails(r) /\ ~ZeroHop(r)

ShapeIds == [j \in 1..Len(shapes) |-> shapes[j][1]]

HasShape(r) == \E j \in 1..Len(shapes) : shapes[j][1] = r.route_id

\* C14: when the loop over the routes is over, a route with a missing
\* station, with a terminal that has no node within the radius, or with no
\* path between its nodes has no shape, and every route after it that has
\* its stations, its nodes and a path has its shape.
C14_FailedRouteSkippedBatchGoesOn ==
    RoutesOver =>
        \A i \in 1..Len(routes) :
            Fails(routes[i]) =>
                /\ ~HasShape(routes[i])
                /\ \A j \in (i + 1)..Len(routes) :
                      Resolved(routes[j]) => HasShape(routes[j])

\* C14 witness: the first route had no node within the radius of a
\* terminal, and the route after it has its shape.
C14_Witness ==
    /\ RoutesOver
    /\ Len(routes) = 2
    /\ NoNodeNear(routes[1])
    /\ HasShape(routes[2])

\* The ids of the routes that have their stations, their nodes and a path of
\* at least one segment, in the order of ROUTES.
ResolvedIds ==
    LET rs == SelectSeq(routes, Resolved)
    IN  [j \in 1..Len(rs) |-> rs[j].route_id]

\* C15: when the loop over the routes is over, the shape list holds one
\* shape for each route that has its stations, its nodes and a path of at
\* least one segment, none for any other route, in the order of the routes
\* in ROUTES.
C15_OneShapePerResolvedRouteInOrder ==
    RoutesOver => ShapeIds = ResolvedIds

\* C15 witness: two routes were resolved, and their shapes stand in the
\* order of the routes.
C15_Witness ==
    /\ RoutesOver
    /\ Len(routes) = 2
    /\ Resolved(routes[1]) /\ Resolved(routes[2])
    /\ ShapeIds = <<routes[1].route_id, routes[2].route_id>>

\* C16: once build_track_graph has returned, no step of find_nearest_node,
\* find_path_bfs, path_to_coordinates or of the loop over the routes changes
\* the graph or the stored geometries: no node, edge or point is added,
\* removed or moved, over any sequence of route computations.
C16_GraphAndGeometriesReadOnly ==
    [][pc # "build" => (graph' = graph /\ segment_geoms' = segment_geoms)]_vars

\* C16 witness: a second route is being worked on after a first one whose
\* path took a segment backwards, and the stored geometries are those
\* build_track_graph returned.
C16_Witness ==
    /\ pc = "route"
    /\ route_i = 2
    /\ Len(shapes) = 1
    /\ \E k \in 1..Len(path_arg) : path_arg[k][2]
    /\ segment_geoms = build_track_graph(segments).segment_geoms
    /\ graph = build_track_graph(segments).graph

\* The number of places of a list that hold a point.
Count(cs, p) == Cardinality({ k \in 1..Len(cs) : cs[k] = <<p.lat, p.lon>> })

\* The run is on the chain PA2-PB, PB-PE, PE-PM-PD, for a route from the
\* node of PA2 to the node of PD.
ChainRun ==
    /\ segments = WithIds(Chain)
    /\ at \in {"path", "coords"}
    /\ start_node = coord_key(PA2.lat, PA2.lon)
    /\ end_node = coord_key(PD.lat, PD.lon)

ChainPath == << <<1, FALSE>>, <<2, FALSE>>, <<3, FALSE>> >>

\* C17: on three segments A-B, B-C, C-D stored in that direction with the
\* very same point at each junction, find_path_bfs from the node of A to the
\* node of D returns the three segments in order, each forward, and the
\* coordinate list put together from that path holds B once and C once.
C17_ChainForwardJunctionsOnce ==
    /\ (ChainRun /\ pc = "bfs_done") => path_ret = Some(ChainPath)
    /\ (ChainRun /\ pc = "coords_done") =>
          /\ path_arg = ChainPath
          /\ Count(coords, PB) = 1
          /\ Count(coords, PE) = 1
          /\ coords = << <<PA2.lat, PA2.lon>>, <<PB.lat, PB.lon>>,
                         <<PE.lat, PE.lon>>, <<PM.lat, PM.lon>>,
                         <<PD.lat, PD.lon>> >>

\* C17 witness: the coordinates of the route along the chain are complete.
C17_Witness ==
    /\ ChainRun
    /\ pc = "coords_done"
    /\ Len(path_arg) = 3
    /\ Len(coords) = 5

----------------------------------------------------------------------------
(* find_path_bfs as a function of its arguments. *)

\* The edge list of a node, in the order the edges were added; empty for a
\* node the graph does not hold.
EdgesAt(n) ==
    LET at_n == { i \in 1..Len(graph) : graph[i].node = n }
    IN  IF at_n = {} THEN <<>> ELSE graph[CHOOSE i \in at_n : TRUE].edges

\* The least number of edges of a walk from n to e is k.
HopsIs(n, e, k) ==
    /\ e \in Within(n, k)
    /\ k > 0 => e \notin Within(n, k - 1)

\* The places in the edge list of s of the edges a walk of k edges from s
\* to e can start with, k being the least number of edges from s to e.
FirstEdges(s, e, k) ==
    { i \in 1..Len(EdgesAt(s)) : HopsIs(EdgesAt(s)[i][1], e, k - 1) }

\* Of the walks of k edges from s to e, k being the least number, the one
\* that at each node takes the earliest edge of the node's list that a walk
\* of the least number of edges can take.
RECURSIVE FirstPath(_, _, _)
FirstPath(s, e, k) ==
    IF k = 0
    THEN <<>>
    ELSE LET edges == EdgesAt(s)
             j == CHOOSE i \in FirstEdges(s, e, k) :
                     \A h \in FirstEdges(s, e, k) : i <= h
         IN  <<<<edges[j][2], edges[j][3]>>>>
             \o FirstPath(edges[j][1], e, k - 1)

\* What a search from s to e returns, from the graph, the two nodes and the
\* hop bound alone.
PathFor(s, e) ==
    IF s = e
    THEN Some(<<>>)
    ELSE IF e \in Reachable(s) /\ MinHops(s, e) <= max_segments + 1
         THEN Some(FirstPath(s, e, MinHops(s, e)))
         ELSE None

\* What find_path_bfs returns, from its arguments alone.
BfsResult == PathFor(start_node, end_node)

\* C18: what find_path_bfs returns is fixed by the graph (its nodes and the
\* order of their edge lists), the start node, the end node and the hop
\* bound, so two runs on the same arguments return the same path, also when
\* several walks of the least number of segments exist: it is then the one
\* that takes the earliest such edge at each node.
C18_PathIsFunctionOfArguments ==
    pc = "bfs_done" => path_ret = BfsResult

\* C18 witness: a path of two segments or more has been returned where
\* walks of the least number of segments go through different nodes.
C18_Witness ==
    /\ pc = "bfs_done"
    /\ path_ret # None
    /\ Len(path_ret[1]) >= 2
    /\ Cardinality({ EdgesAt(start_node)[i][1] :
                       i \in FirstEdges(start_node, end_node,
                                        Len(path_ret[1])) }) >= 2

----------------------------------------------------------------------------
(* Routes of no segment, and the trips. *)

\* C19: when the loop over the routes is over, a route whose two terminals
\* stand for the same node has no shape and no row in shapes.txt, as a
\* route with no path, and every route after it that has its stations, its
\* nodes and a path has its shape.
C19_ZeroHopRouteGetsNoShape ==
    RoutesOver =>
        \A i \in 1..Len(routes) :
            ZeroHop(routes[i]) =>
                /\ ~HasShape(routes[i])
                /\ RowsOf(routes[i].route_id) = <<>>
                /\ \A j \in (i + 1)..Len(routes) :
                      Resolved(routes[j]) => HasShape(routes[j])

\* C19 witness: the first route had both terminals at one node and has no
\* shape; the route after it has its shape, and shapes.txt is written.
C19_Witness ==
    /\ Written
    /\ Len(routes) = 2
    /\ ZeroHop(routes[1])
    /\ ShapeIds = <<routes[2].route_id>>

\* The ids of the configured routes: ROUTES.keys().
Configured == { routes[i].route_id : i \in 1..Len(routes) }

----------------------------------------------------------------------------
(* Keys, edges and stored geometries. *)

\* The node whose list holds the edge of a segment with a given flag: the
\* forward edge is put under the key of the first point, the reverse edge
\* under the key of the last.
HoldersOf(id, flag) ==
    { graph[p[1]].node : p \in { q \in PlacesOf(graph, id) :
                                   EdgeAt(graph, q)[3] = flag } }

\* The raw end points of the segments built so far, each with the nodes its
\* edge was put under.
RawEnds ==
    UNION { { <<segments[i].geometry[1], HoldersOf(segments[i].id, FALSE)>>,
              <<segments[i].geometry[Len(segments[i].geometry)],
                HoldersOf(segments[i].id, TRUE)>> } : i \in ValidProcessed }

\* C21: the key of a key is that key: every node of the graph, rounded
\* again at the same precision, is itself; and within one build two end
\* points with the same raw coordinates are put under the same node.
C21_KeyOfKeyIsKey ==
    pc \in {"build", "build_done"} =>
        /\ \A n \in NodeSet(graph) : coord_key(n[1], n[2]) = n
        /\ \A a \in RawEnds : \A b \in RawEnds :
              a[1] = b[1] => a[2] = b[2]
        /\ \A a \in RawEnds : Cardinality(a[2]) = 1

\* C21 witness: the graph is built; an end point that is not itself a key
\* has been rounded to a node, and two segments share an end point.
C21_Witness ==
    /\ pc = "build_done"
    /\ \E a \in RawEnds : <<a[1].lat, a[1].lon>> \notin NodeSet(graph)
    /\ \E i \in ValidProcessed : \E j \in ValidProcessed :
          /\ i # j
          /\ segments[i].geometry[1] = segments[j].geometry[Len(segments[j].geometry)]

\* The stored points of a segment in the direction an edge takes them.
Taken(geom, flag) ==
    IF flag THEN [k \in 1..Len(geom) |-> geom[Len(geom) + 1 - k]] ELSE geom

\* C22: for every edge (neighbor, segment id, flag) in the list of a node n,
\* the geometry stored under the segment id, taken backwards exactly when
\* the flag is set, starts at a point whose key is n and ends at a point
\* whose key is neighbor.
C22_EdgeFlagOrientsGeometry ==
    pc \in {"build", "build_done"} =>
        \A p \in Places(graph) :
            LET n == graph[p[1]].node
                edge == EdgeAt(graph, p)
            IN  /\ edge[2] \in DOMAIN segment_geoms
                /\ LET pts == Taken(segment_geoms[edge[2]], edge[3])
                   IN  /\ KeyOf(pts[1]) = n
                       /\ KeyOf(pts[Len(pts)]) = edge[1]

\* C22 witness: the graph is built and holds a reverse edge between two
\* different nodes, for a geometry of three points.
C22_Witness ==
    /\ pc = "build_done"
    /\ \E p \in Places(graph) :
          /\ EdgeAt(graph, p)[3]
          /\ EdgeAt(graph, p)[1] # graph[p[1]].node
          /\ Len(segment_geoms[EdgeAt(graph, p)[2]]) = 3

----------------------------------------------------------------------------
(* The search, step by step. *)

\* The entries a step of the search puts at the back of the queue: a step
\* takes one entry from the front and appends.
Enqueued ==
    IF pc = "bfs_loop" /\ queue # <<>>
    THEN SubSeq(queue', Len(queue), Len(queue'))
    ELSE IF pc = "bfs" THEN queue' ELSE <<>>

EnqueuedNodes == { Enqueued[k][1] : k \in 1..Len(Enqueued) }

\* The node an edge (segment id, flag) out of node n leads to.
NodeAfter(n, step) ==
    LET edges == EdgesAt(n)
        j == CHOOSE i \in 1..Len(edges) :
                edges[i][2] = step[1] /\ edges[i][3] = step[2]
    IN  edges[j][1]

\* The nodes a path goes through out of node n, n first.
RECURSIVE NodesAlong(_, _)
NodesAlong(n, path) ==
    IF path = <<>>
    THEN <<n>>
    ELSE <<n>> \o NodesAlong(NodeAfter(n, Head(path)), Tail(path))

NoRepeat(s) == \A i \in 1..Len(s) : \A j \in 1..Len(s) : s[i] = s[j] => i = j

\* While the search runs, the nodes waiting in the queue are all different
\* and all visited; a returned path goes through no node twice, its start
\* and its end included.
SearchVisitsOnce ==
    /\ pc = "bfs_loop" =>
          /\ NoRepeat([k \in 1..Len(queue) |-> queue[k][1]])
          /\ \A k \in 1..Len(queue) : queue[k][1] \in visited
    /\ (pc = "bfs_done" /\ path_ret # None) =>
          NoRepeat(NodesAlong(start_node, path_ret[1]))

\* A step of the search enqueues only nodes that were not visited, each
\* once, marks exactly those visited, and takes no node out of visited.
EnqueuesUnvisitedOnly ==
    pc \in {"bfs", "bfs_loop"} =>
        /\ \A k \in 1..Len(Enqueued) :
              /\ Enqueued[k][1] \notin (visited \ {start_node})
              /\ \A h \in 1..Len(Enqueued) :
                    Enqueued[k][1] = Enqueued[h][1] => k = h
        /\ pc = "bfs_loop" =>
              /\ EnqueuedNodes \cap visited = {}
              /\ visited' = visited \cup EnqueuedNodes

\* C23: during find_path_bfs every node is added to the visited set and to
\* the queue at most once, and the returned path passes through no node of
\* the graph twice, start and end nodes included.
C23_EachNodeVisitedAndQueuedOnce ==
    [][EnqueuesUnvisitedOnly]_vars /\ []SearchVisitsOnce

\* C23 witness: a path of two segments has been returned from a graph with
\* a cycle, where the end node was the neighbour of two visited nodes.
C23_Witness ==
    /\ pc = "bfs_done"
    /\ path_ret # None
    /\ Len(path_ret[1]) = 2
    /\ Cardinality(visited) >= 3
    /\ Cardinality({ n \in visited : end_node \in Neighbours({n}) }) >= 2

\* C24: find_path_bfs terminates on every finite graph, with cycles,
\* parallel segments or segments whose two ends share one key: every call
\* comes to return a path or None.
C24_SearchTerminates == <>(pc = "bfs_done")

\* An edge from a node to itself, and two edges of different segments
\* between the same two nodes.
HasLoopAndParallel ==
    /\ \E p \in Places(graph) : EdgeAt(graph, p)[1] = graph[p[1]].node
    /\ \E p \in Places(graph) : \E q \in Places(graph) :
          /\ p[1] = q[1]
          /\ EdgeAt(graph, p)[1] = EdgeAt(graph, q)[1]
          /\ EdgeAt(graph, p)[1] # graph[p[1]].node
          /\ EdgeAt(graph, p)[2] # EdgeAt(graph, q)[2]

\* C24 witness: the search has returned None from a node of a graph that
\* has a segment with both ends at one key and two parallel segments, after
\* visiting more than one node.
C24_Witness ==
    /\ pc = "bfs_done"
    /\ path_ret = None
    /\ HasLoopAndParallel
    /\ start_node \in NodeSet(graph)
    /\ Cardinality(visited) >= 2

\* The entry at the front of the queue has a path of more than max_segments
\* segments.
FrontOverBound ==
    /\ pc = "bfs_loop"
    /\ queue # <<>>
    /\ Len(queue[1][2]) > max_segments

\* The front entry is taken off and nothing else happens: nothing is added
\* to visited or to the queue, and nothing is returned.
FrontDropped ==
    /\ queue' = Tail(queue)
    /\ visited' = visited
    /\ path_ret' = path_ret
    /\ pc' = "bfs_loop"

\* C25: a dequeued entry whose path has more than max_segments segments is
\* dropped without a look at the edges of its node: the step adds nothing to
\* the visited set or the queue and returns nothing.
C25_OverBoundEntryDropped ==
    [][FrontOverBound => FrontDropped]_vars

\* C25 witness: the search has returned None although a walk from start to
\* end exists, entries over the bound having been dropped with unvisited
\* nodes beyond them.
C25_Witness ==
    /\ pc = "bfs_done"
    /\ path_ret = None
    /\ start_node # end_node
    /\ end_node \in Reachable(start_node)
    /\ Reachable(start_node) \ visited # {end_node}

----------------------------------------------------------------------------
(* The shape of a route as a function of the route. *)

\* The points of a path laid end to end, after those of acc: each segment
\* in the direction its flag says, less its first point when that is the
\* last point laid.
RECURSIVE Stitch(_, _)
Stitch(path, acc) ==
    IF path = <<>>
    THEN acc
    ELSE LET geom == Taken(segment_geoms[Head(path)[1]], Head(path)[2])
             pts == [k \in 1..Len(geom) |-> <<geom[k].lat, geom[k].lon>>]
             rest == IF acc # <<>> /\ acc[Len(acc)] = pts[1]
                     THEN Tail(pts)
                     ELSE pts
         IN  Stitch(Tail(path), acc \o rest)

\* The coordinates of the shape of a resolved route, from the graph, the
\* stored geometries and the route's two terminals alone.
ShapeCoordsOf(r) ==
    LET s == NodeOf(r, 1)
        e == NodeOf(r, 2)
    IN  Stitch(FirstPath(s, e, MinHops(s, e)), <<>>)

\* The shapes of the resolved routes, each computed on its own, put in the
\* order of the routes in ROUTES.
ShapesEachOnItsOwn ==
    LET rs == SelectSeq(routes, Resolved)
    IN  [j \in 1..Len(rs) |-> <<rs[j].route_id, ShapeCoordsOf(rs[j])>>]

EdgeIds == { EdgeAt(graph, p)[2] : p \in Places(graph) }

\* C27: the segment ids on the edges of the graph are the keys of the
\* geometry store, during the build and ever after, and every stored
\* geometry has at least 2 points; so each (segment id, flag) of a path
\* returned by find_path_bfs is a key of the store with at least 2 points.
C27_EdgeIdsAreStoredGeometries ==
    /\ EdgeIds = DOMAIN segment_geoms
    /\ \A id \in DOMAIN segment_geoms : Len(segment_geoms[id]) >= 2
    /\ (pc \in {"bfs_done", "coords", "coords_done"} /\ path_ret # None) =>
          \A k \in 1..Len(path_ret[1]) :
              /\ path_ret[1][k][1] \in DOMAIN segment_geoms
              /\ Len(segment_geoms[path_ret[1][k][1]]) >= 2

\* C27 witness: a path has been returned from a graph built from a list
\* with a segment too short to be stored, and its coordinates are being
\* put together.
C27_Witness ==
    /\ pc = "coords"
    /\ path_ret # None
    /\ path_i = Len(path_ret[1]) + 1
    /\ path_i > 1
    /\ \E i \in 1..Len(segments) : Len(segments[i].geometry) < 2
    /\ DOMAIN segment_geoms # {}

----------------------------------------------------------------------------
(* Trips and the shapes they name. *)

\* The shape ids that have a row in shapes.txt.
WrittenShapeIds == { rows[k][1] : k \in 1..Len(rows) }

\* C28: after generate_shapes, every non-empty shape_id written to a trip is
\* the id of a shape with at least one row in shapes.txt, whichever routes
\* succeeded and whichever failed.
C28_TripShapeIdNamesWrittenShape ==
    pc = "done" =>
        \A i \in 1..Len(trips_out.rows) :
            trips_out.rows[i].shape_id # "" =>
                trips_out.rows[i].shape_id \in WrittenShapeIds

----------------------------------------------------------------------------
(* The search, one way and back. *)

\* C29: on a graph built by build_track_graph, the search from a to b
\* returns a path exactly when the search from b to a does, and the two
\* paths have the same number of segments.  The search the other way is
\* PathFor(end_node, start_node), which C18 shows to be what find_path_bfs
\* returns for every pair of nodes.
C29_SearchSymmetricInEndpoints ==
    pc = "bfs_done" =>
        /\ path_ret = PathFor(start_node, end_node)
        /\ (path_ret # None) <=> (PathFor(end_node, start_node) # None)
        /\ path_ret # None =>
              Len(path_ret[1]) = Len(PathFor(end_node, start_node)[1])

\* C29 witness: a path of two segments or more has been returned, and the
\* search the other way does not simply retrace it edge for edge.
C29_Witness ==
    /\ pc = "bfs_done"
    /\ path_ret # None
    /\ Len(path_ret[1]) >= 2
    /\ LET back == PathFor(end_node, start_node)[1]
           n == Len(back)
       IN  \E k \in 1..n : back[k][1] # path_ret[1][n + 1 - k][1]

====
